---- MODULE Spec2Model ----
\* Model of tool_step.py: ToolStepEnv.run_steps, CompositeTool.run_no_mem /
\* proof_check and the ProofChecker scheduler (foreground thread + worker).
EXTENDS Integers, Sequences, FiniteSets, TLC

\* ---------------------------------------------------------------- bounds
\* number of top-level run_steps calls the foreground makes
MaxRuns == 1
\* number of reset() calls
MaxResets == 1
\* number of LogicalCore instances that can be alive at once
NumLogics == 4
\* numeric witnesses are integers modulo ValMod
ValMod == 3

\* ---------------------------------------------------------------- values
\* Python's None in a translation table; global indices are 1..Len(num_model)
None == 0
\* the live model of the interactive front end
AmbientLogic == 1
LogicIds == 1..NumLogics
Threads == {"fg", "wk"}
\* a step built without debug_msg
NoDebug == ""

RECURSIVE SumSeq(_)
SumSeq(s) == IF s = <<>> THEN 0 ELSE Head(s) + SumSeq(Tail(s))

Nones(n) == [i \in 1..n |-> None]
Range(s) == {s[i] : i \in 1..Len(s)}
Front(s) == SubSeq(s, 1, Len(s) - 1)
Last(s) == s[Len(s)]

\* ---------------------------------------------------------------- tools
\* ToolStep(tool, hyper_params, local_args, start_out, debug_msg); local
\* indices are 0-based as in the source
ToolStep(tool, hp, args, dbg) ==
    [tool |-> tool, hyper_params |-> hp, local_args |-> args, debug_msg |-> dbg]

BasicTools == {"free", "pair", "pred"}
CompositeTools == {"Mid", "Leaf", "Outer", "Lem", "Inner", "Deep", "Plain"}

\* len(tool.arg_types), len(tool.out_types)
arg_types == [free |-> 0, pair |-> 1, pred |-> 1, Mid |-> 1, Leaf |-> 1, Outer |-> 1,
              Lem |-> 1, Inner |-> 1, Deep |-> 1, Plain |-> 1]
out_types == [free |-> 1, pair |-> 2, pred |-> 0, Mid |-> 1, Leaf |-> 1, Outer |-> 1,
              Lem |-> 1, Inner |-> 1, Deep |-> 1, Plain |-> 1]

assumptions ==
    [Mid   |-> << ToolStep("pair", 1, <<0>>, NoDebug) >>,
     Leaf  |-> << ToolStep("pair", 0, <<0>>, "leaf-assume") >>,
     Outer |-> << ToolStep("Leaf", 0, <<0>>, "outer-assume") >>,
     Lem   |-> << >>,
     Inner |-> << >>,
     Deep  |-> << >>,
     Plain |-> << >>]

implications ==
    [Mid   |-> << >>,
     Leaf  |-> << ToolStep("pair", 2, <<2>>, "leaf-imply"),
                  ToolStep("pred", 0, <<3>>, NoDebug) >>,
     Outer |-> << ToolStep("pred", 0, <<1>>, "outer-imply") >>,
     Lem   |-> << >>,
     Inner |-> << ToolStep("Lem", 0, <<0>>, "inner-imply") >>,
     Deep  |-> << ToolStep("Plain", 0, <<0>>, "deep-imply") >>,
     Plain |-> << >>]

\* tools absent from the domain have proof = None
proof ==
    [Leaf  |-> << ToolStep("pair", 1, <<1>>, "leaf-proof") >>,
     Outer |-> << ToolStep("Leaf", 0, <<1>>, "outer-proof"),
                  ToolStep("Mid", 0, <<2>>, NoDebug) >>,
     Lem   |-> << ToolStep("pred", 0, <<0>>, "lem-proof") >>,
     Inner |-> << ToolStep("Lem", 0, <<0>>, "inner-proof") >>,
     Deep  |-> << ToolStep("Lem", 0, <<0>>, "deep-proof"),
                  ToolStep("pred", 0, <<1>>, "deep-pred"),
                  ToolStep("Inner", 0, <<1>>, NoDebug) >>]

result == [Mid |-> <<2>>, Leaf |-> <<3>>, Outer |-> <<1>>,
           Lem |-> <<0>>, Inner |-> <<0>>, Deep |-> <<0>>, Plain |-> <<0>>]

HasProof(T) == T \in DOMAIN proof

\* the script the front end runs
GuiSteps ==
    << ToolStep("free", 1, << >>, "gui-free"),
       ToolStep("pair", 0, <<0>>, NoDebug),
       ToolStep("Outer", 0, <<2>>, "gui-outer"),
       ToolStep("pred", 0, <<3>>, NoDebug) >>

\* a second script: a tool whose proof nests two levels of obligations,
\* followed by a second top-level obligation
DeepSteps ==
    << ToolStep("free", 0, << >>, "deep-free"),
       ToolStep("Deep", 0, <<0>>, "deep-deep"),
       ToolStep("Lem", 0, <<1>>, NoDebug) >>

\* the steps argument of run_steps, by name
Scripts == [gui |-> GuiSteps, deep |-> DeepSteps]

\* numeric witness of the k-th output of a basic tool
ToolValue(tool, hp, argvals, k) == (hp + SumSeq(argvals) + k) % ValMod

\* ---------------------------------------------------------------- weights
RECURSIVE deep_len_all(_), deep_len_proof(_)
CompositeSteps(steps) == SelectSeq(steps, LAMBDA s : s.tool \in CompositeTools)
RECURSIVE SumAll(_)
SumAll(steps) ==
    IF steps = <<>> THEN 0 ELSE deep_len_all(Head(steps).tool) + SumAll(Tail(steps))

\* lines 82-86 summing over the proof steps only
MutDeepLenProof(T) ==
    IF ~HasProof(T) THEN 0
    ELSE 1 + SumAll(CompositeSteps(proof[T]))

\* lines 79-86
deep_len_proof(T) ==
    IF ~HasProof(T) THEN 0
    ELSE 1 + SumAll(CompositeSteps(implications[T] \o proof[T]))

\* lines 74-78 without line 87
MutDeepLenAll(T) == SumAll(CompositeSteps(assumptions[T]))

\* lines 74-78 and 87
deep_len_all(T) ==
    SumAll(CompositeSteps(assumptions[T])) + deep_len_proof(T)

\* ---------------------------------------------------------------- state
VARIABLES
    cs,             \* per thread: the call stack of run_steps / run_no_mem / proof_check frames
    exc,            \* per thread: the exception being propagated, with its tool_traceback
    num_model,      \* per LogicalCore instance: logic.num_model, indexed by global index
    live,           \* the LogicalCore instances that exist
    q,              \* ProofChecker.q
    stack,          \* ProofChecker.stack
    tasks,          \* ProofChecker.tasks
    task_index,     \* ProofChecker.task_index
    checked_num,    \* ProofChecker.checked_num
    disabled,       \* ProofChecker.disabled
    wpc,            \* position of the worker thread in ProofChecker.process
    sleepiness,     \* local variable of ProofChecker.process
    timeSet,        \* whether the attribute ProofChecker.time has been assigned
    progress_hook,  \* ProofChecker.progress_hook
    progress,       \* the (done, size) of the progress_hook call the worker made in its
                    \* latest step of the main loop; << >> when that step made none
    nextId,         \* identity given to the next obligation
    batchSeen,      \* len(tasks) when the first verification of the current busy period
                    \* started; 0 outside a busy period
    startLog,       \* identities of the obligations whose proof_check the worker started, in order
    runs,           \* top-level run_steps calls made so far
    resets          \* reset() calls made so far

vars == << cs, exc, num_model, live, q, stack, tasks, task_index, checked_num,
           disabled, wpc, sleepiness, timeSet, progress_hook, progress,
           nextId, startLog, batchSeen, runs, resets >>

\* what the foreground never touches
workerVars == << stack, tasks, task_index, checked_num, sleepiness, timeSet,
                 progress, startLog, batchSeen >>
controlVars == << disabled, progress_hook, runs, resets >>

\* the attribute progress_hook before paralelize() has assigned it
Unset == "unset"
\* line 142: the default progress_hook = None
NoHook == "None"
\* the values paralelize() is called with: None, or a callback of the front end
ProgressHooks == {NoHook, "hook"}

NoExc == [on |-> FALSE, tool_traceback |-> << >>]
Raised(tb) == [on |-> TRUE, tool_traceback |-> tb]

\* threading.Thread.is_alive() of ProofChecker.t
IsAlive == wpc \notin {"unstarted", "dead"}

Init ==
    /\ cs = [t \in Threads |-> << >>]
    /\ exc = [t \in Threads |-> NoExc]
    /\ num_model = [l \in LogicIds |-> << >>]
    /\ live = {AmbientLogic}
    /\ q = << >>
    /\ stack = << >>
    /\ tasks = << >>
    /\ task_index = 0
    /\ checked_num = 0
    /\ disabled = FALSE
    /\ wpc = "unstarted"
    /\ sleepiness = 0
    /\ timeSet = FALSE
    /\ progress_hook = Unset
    /\ progress = << >>
    /\ nextId = 1
    /\ startLog = << >>
    /\ batchSeen = 0
    /\ runs = 0
    /\ resets = 0

\* ---------------------------------------------------------------- frames
\* One frame per active ToolStepEnv: kind "gui" (run_steps called by the front
\* end), "run" (CompositeTool.run_no_mem) or "proof" (CompositeTool.proof_check).
\* pc names the run_steps call in progress; steps/strictness/catch_errors are
\* that call's arguments, idx the 1-based position of its for loop, pre the
\* table at its entry.
Frame(kind, tool, lg, table, runStrictness, nargs) ==
    [kind |-> kind, tool |-> tool, logic |-> lg, local_to_global |-> table,
     pc |-> "none", idx |-> 1, strictness |-> 0, catch_errors |-> FALSE,
     pre |-> table, local_to_global_bak |-> << >>,
     run_strictness |-> runStrictness, num_args |-> nargs, submitted |-> 0,
     discarded |-> 0]

StepsOf(f) ==
    CASE f.pc = "gui" -> Scripts[f.tool]
      [] f.pc = "assumptions" -> assumptions[f.tool]
      [] f.pc = "proof" -> proof[f.tool]
      [] f.pc = "implications" -> implications[f.tool]
      [] OTHER -> << >>

\* entry of run_steps(steps, strictness, catch_errors)
EnterRunSteps(f, which, strictness, catch) ==
    [f EXCEPT !.pc = which, !.idx = 1, !.strictness = strictness,
              !.catch_errors = catch, !.pre = f.local_to_global]

Top(t) == Last(cs[t])
InRunSteps(f) == f.pc \in {"gui", "assumptions", "proof", "implications"}
AtStep(f) == InRunSteps(f) /\ f.idx <= Len(StepsOf(f))
LoopDone(f) == InRunSteps(f) /\ f.idx > Len(StepsOf(f))
CurStep(f) == StepsOf(f)[f.idx]

\* line 47: global_args
GlobalArgs(f, step) ==
    [i \in 1..Len(step.local_args) |-> f.local_to_global[step.local_args[i] + 1]]

\* line 61: self.local_to_global.extend(subresult)
Extend(f, subresult) ==
    [f EXCEPT !.local_to_global = f.local_to_global \o subresult, !.idx = f.idx + 1]

\* a thread may take a step of its top frame
CanRun(t) ==
    /\ cs[t] # << >>
    /\ ~exc[t].on
    /\ (t = "wk" => wpc = "verify")

SetTop(t, f) == [cs EXCEPT ![t] = [cs[t] EXCEPT ![Len(cs[t])] = f]]

\* lines 54-60: the except clause of run_steps in frame c, for an error with
\* traceback tb raised by c's current step
HandlerTraceback(c, tb) ==
    IF CurStep(c).debug_msg # NoDebug THEN Append(tb, [kind |-> "debug", msg |-> CurStep(c).debug_msg, tool |-> "", args |-> << >>])
    ELSE tb
\* a skipped step that leaves no placeholder
MutInitSubresult(step) == << >>

\* line 48: subresult = [None]*len(step.tool.out_types)
InitSubresult(step) == Nones(out_types[step.tool])

\* line 61 reached even when the error is re-raised
MutHandlerFrame(c) == Extend(c, InitSubresult(CurStep(c)))

HandlerFrame(c) ==
    IF c.catch_errors THEN Extend(c, InitSubresult(CurStep(c))) ELSE c
HandlerExc(c, tb) ==
    IF c.catch_errors THEN NoExc ELSE Raised(HandlerTraceback(c, tb))

\* ---------------------------------------------------------------- run_steps
\* lines 47-50, 61: an argument resolves to None, the step is skipped
StepSkip(t) ==
    /\ CanRun(t) /\ AtStep(Top(t))
    /\ LET f == Top(t)
           step == CurStep(f)
       IN /\ None \in Range(GlobalArgs(f, step))
          /\ cs' = SetTop(t, Extend(f, InitSubresult(step)))
    /\ UNCHANGED << exc, num_model, live, q, nextId, workerVars, controlVars, wpc >>

\* objects a basic tool adds to the model it is run on
BasicOutputs(f, step) ==
    LET gargs == GlobalArgs(f, step)
        argvals == [i \in 1..Len(gargs) |-> num_model[f.logic][gargs[i]]]
    IN [k \in 1..out_types[step.tool] |-> ToolValue(step.tool, step.hyper_params, argvals, k)]

\* lines 52-53, 61: a basic tool runs and returns len(out_types) new objects
StepBasicOk(t) ==
    /\ CanRun(t) /\ AtStep(Top(t))
    /\ LET f == Top(t)
           step == CurStep(f)
           base == Len(num_model[f.logic])
       IN /\ step.tool \in BasicTools
          /\ None \notin Range(GlobalArgs(f, step))
          /\ num_model' = [num_model EXCEPT ![f.logic] = @ \o BasicOutputs(f, step)]
          /\ cs' = SetTop(t, Extend(f, [k \in 1..out_types[step.tool] |-> base + k]))
    /\ UNCHANGED << exc, live, q, nextId, workerVars, controlVars, wpc >>

\* lines 52, 54-60: a basic tool raises
StepBasicFail(t) ==
    /\ CanRun(t) /\ AtStep(Top(t))
    /\ LET f == Top(t)
           step == CurStep(f)
       IN /\ step.tool \in BasicTools
          /\ None \notin Range(GlobalArgs(f, step))
          /\ cs' = SetTop(t, HandlerFrame(f))
          /\ exc' = [exc EXCEPT ![t] = HandlerExc(f, << >>)]
    /\ UNCHANGED << num_model, live, q, nextId, workerVars, controlVars, wpc >>

\* line 52 on a composite tool: run_no_mem starts (lines 90-91)
StepCall(t) ==
    /\ CanRun(t) /\ AtStep(Top(t))
    /\ LET f == Top(t)
           step == CurStep(f)
           callee == Frame("run", step.tool, f.logic, GlobalArgs(f, step), f.strictness, << >>)
       IN /\ step.tool \in CompositeTools
          /\ None \notin Range(GlobalArgs(f, step))
          /\ cs' = [cs EXCEPT ![t] = Append(@, EnterRunSteps(callee, "assumptions", f.strictness, FALSE))]
    /\ UNCHANGED << exc, num_model, live, q, nextId, workerVars, controlVars, wpc >>

\* ---------------------------------------------------------------- run_no_mem
AtCheck(t) ==
    /\ CanRun(t)
    /\ Top(t).kind = "run" /\ Top(t).pc = "assumptions" /\ LoopDone(Top(t))

\* line 92 without the test of self.proof
MutMustCheck(f) == f.run_strictness = 1

\* line 92
MustCheck(f) == f.run_strictness = 1 /\ HasProof(f.tool)

\* lines 93-96
NumArgs(f) == [i \in 1..Len(f.local_to_global) |-> num_model[f.logic][f.local_to_global[i]]]

Submitted(f) == [f EXCEPT !.submitted = f.submitted + 1]

\* line 92 false, line 98
RunNoCheck(t) ==
    /\ AtCheck(t) /\ ~MustCheck(Top(t))
    /\ cs' = SetTop(t, EnterRunSteps(Top(t), "implications", 0, FALSE))
    /\ UNCHANGED << exc, num_model, live, q, nextId, workerVars, controlVars, wpc >>

\* line 152 left out
MutIsDisabled == FALSE

\* line 152: if self.disabled
IsDisabled == disabled

\* the innermost proof_check among the given frames notes that a submit made
\* during it was discarded
NoteDiscard(frames) ==
    LET at == {d \in 1..Len(frames) : frames[d].kind = "proof"}
    IN IF at = {} THEN frames
       ELSE LET d == CHOOSE x \in at : \A y \in at : y <= x
            IN [frames EXCEPT ![d].discarded = 1]

\* lines 97, 152: the checker is disabled
CheckDisabled(t) ==
    /\ AtCheck(t) /\ MustCheck(Top(t))
    /\ IsDisabled
    /\ cs' = [cs EXCEPT ![t] =
                NoteDiscard(Front(@)) \o
                    << EnterRunSteps(Submitted(Top(t)), "implications", 0, FALSE) >>]
    /\ UNCHANGED << exc, num_model, live, q, nextId, workerVars, controlVars, wpc >>

\* the LogicalCore that line 105 creates
FreeLogics == LogicIds \ live
\* proof_check run on the caller's model
MutSandboxLogic == AmbientLogic

SandboxLogic == CHOOSE l \in FreeLogics : \A m \in FreeLogics : l <= m

\* lines 105-109: proof_check up to the first run_steps
ProofFrame(tool, nargs, lg) ==
    LET n == arg_types[tool]
        args == [i \in 1..n |-> Len(num_model[lg]) + i]
    IN EnterRunSteps(Frame("proof", tool, lg, args, 0, nargs), "assumptions", 0, FALSE)

\* line 106: logic.add_objs(num_args[:len(self.arg_types)])
AddObjs(tool, nargs, lg) ==
    [num_model EXCEPT ![lg] = @ \o SubSeq(nargs, 1, arg_types[tool])]

\* lines 97, 153-155: no live worker, proof_check runs on the calling thread
CheckSync(t) ==
    /\ AtCheck(t) /\ MustCheck(Top(t))
    /\ ~IsDisabled /\ ~IsAlive
    /\ FreeLogics # {}
    /\ LET f == Top(t)
           lg == SandboxLogic
       IN /\ cs' = [cs EXCEPT ![t] = Append(Front(@) \o << [Submitted(f) EXCEPT !.pc = "check"] >>,
                                             ProofFrame(f.tool, NumArgs(f), lg))]
          /\ num_model' = AddObjs(f.tool, NumArgs(f), lg)
          /\ live' = live \cup {lg}
    /\ UNCHANGED << exc, q, nextId, workerVars, controlVars, wpc >>

\* a (tool, num_args) pair of lines 157 and 159; id orders the submissions,
\* parent is the obligation under verification when a nested one is pushed
Obligation(tool, nargs, id, parent) ==
    [kind |-> "task", tool |-> tool, num_args |-> nargs, id |-> id, parent |-> parent]
\* (None, "reset") of line 166; mark and started record the moment of the
\* call: the identity the next obligation would get and the number of
\* verifications the worker had started
ResetMsg(mark, started) ==
    [kind |-> "reset", tool |-> "", num_args |-> << >>, id |-> 0, parent |-> 0,
     mark |-> mark, started |-> started]

\* every thread taken for a foreground thread
MutOnWorker(t) == FALSE

\* every thread taken for the worker
MutAnyThread(t) == TRUE

\* line 156: threading.current_thread() is self.t
OnWorker(t) == t = "wk"

\* lines 97, 156-157: a foreground thread submits to the live worker
CheckEnqueue(t) ==
    /\ AtCheck(t) /\ MustCheck(Top(t))
    /\ ~IsDisabled /\ IsAlive /\ ~OnWorker(t)
    /\ q' = Append(q, Obligation(Top(t).tool, NumArgs(Top(t)), nextId, 0))
    /\ nextId' = nextId + 1
    /\ cs' = SetTop(t, EnterRunSteps(Submitted(Top(t)), "implications", 0, FALSE))
    /\ UNCHANGED << exc, num_model, live, workerVars, controlVars, wpc >>

\* the obligation whose proof_check the worker started last
Verifying == IF startLog = << >> THEN 0 ELSE Last(startLog).id

\* lines 97, 158-159: the worker itself submits a nested obligation
CheckPush(t) ==
    /\ AtCheck(t) /\ MustCheck(Top(t))
    /\ ~IsDisabled /\ IsAlive /\ OnWorker(t)
    /\ stack' = Append(stack, Obligation(Top(t).tool, NumArgs(Top(t)), nextId, Verifying))
    /\ nextId' = nextId + 1
    /\ cs' = SetTop(t, EnterRunSteps(Submitted(Top(t)), "implications", 0, FALSE))
    /\ UNCHANGED << exc, num_model, live, q, tasks, task_index, checked_num, sleepiness,
                    timeSet, progress, startLog, batchSeen, controlVars, wpc >>

\* lines 100-101, then line 61 of the caller
RunReturn(t) ==
    /\ CanRun(t)
    /\ LET f == Top(t)
           res == [i \in 1..Len(result[f.tool]) |-> f.local_to_global[result[f.tool][i] + 1]]
           c == cs[t][Len(cs[t]) - 1]
       IN /\ f.kind = "run" /\ f.pc = "implications" /\ LoopDone(f)
          /\ cs' = [cs EXCEPT ![t] = Append(SubSeq(@, 1, Len(@) - 2), Extend(c, res))]
    /\ UNCHANGED << exc, num_model, live, q, nextId, workerVars, controlVars, wpc >>

\* ---------------------------------------------------------------- proof_check
\* the sandbox of a finished proof_check becomes garbage
ReleasedLive(lg) == IF lg = AmbientLogic THEN live ELSE live \ {lg}
ReleasedModel(lg) == IF lg = AmbientLogic THEN num_model ELSE [num_model EXCEPT ![lg] = << >>]

\* lines 114-115
ProofSnapshot(t) ==
    /\ CanRun(t)
    /\ LET f == Top(t)
       IN /\ f.kind = "proof" /\ f.pc = "assumptions" /\ LoopDone(f)
          /\ cs' = SetTop(t, EnterRunSteps([f EXCEPT !.local_to_global_bak = f.local_to_global],
                                           "proof", 1, FALSE))
    /\ UNCHANGED << exc, num_model, live, q, nextId, workerVars, controlVars, wpc >>

\* line 116 left out
MutRestored(f) == f.local_to_global

\* line 116: env.local_to_global = local_to_global_bak
Restored(f) == f.local_to_global_bak

\* lines 116-117
ProofRestore(t) ==
    /\ CanRun(t)
    /\ LET f == Top(t)
       IN /\ f.kind = "proof" /\ f.pc = "proof" /\ LoopDone(f)
          /\ cs' = SetTop(t, EnterRunSteps([f EXCEPT !.local_to_global = Restored(f)],
                                           "implications", 1, FALSE))
    /\ UNCHANGED << exc, num_model, live, q, nextId, workerVars, controlVars, wpc >>

\* proof_check returns normally to ProofChecker.check (line 155) on a caller's
\* thread, whose run_no_mem goes on with line 98
ProofReturnSync(t) ==
    /\ CanRun(t)
    /\ Len(cs[t]) > 1
    /\ LET f == Top(t)
           c == cs[t][Len(cs[t]) - 1]
       IN /\ f.kind = "proof" /\ f.pc = "implications" /\ LoopDone(f)
          /\ cs' = [cs EXCEPT ![t] = Append(SubSeq(@, 1, Len(@) - 2),
                                            EnterRunSteps(c, "implications", 0, FALSE))]
          /\ live' = ReleasedLive(f.logic)
          /\ num_model' = ReleasedModel(f.logic)
    /\ UNCHANGED << exc, q, nextId, workerVars, controlVars, wpc >>

\* proof_check returns normally to ProofChecker.process (line 210)
ProofReturnWorker ==
    /\ CanRun("wk")
    /\ Len(cs["wk"]) = 1
    /\ LET f == Top("wk")
       IN /\ f.kind = "proof" /\ f.pc = "implications" /\ LoopDone(f)
          /\ cs' = [cs EXCEPT !["wk"] = << >>]
          /\ live' = ReleasedLive(f.logic)
          /\ num_model' = ReleasedModel(f.logic)
    /\ wpc' = "after"
    /\ UNCHANGED << exc, q, nextId, workerVars, controlVars >>

\* line 120 without the slice
MutFailedProof(f) ==
    [kind |-> "failed", msg |-> "", tool |-> f.tool, args |-> f.num_args]

\* lines 119-121: the trace entry of a failed proof
FailedProof(f) ==
    [kind |-> "failed", msg |-> "", tool |-> f.tool,
     args |-> SubSeq(f.num_args, 1, arg_types[f.tool])]

\* ---------------------------------------------------------------- exceptions
Raising(t) == cs[t] # << >> /\ exc[t].on

\* lines 118-122: the except clause of proof_check, then the error leaves it
PropagateProof(t) ==
    /\ Raising(t)
    /\ LET f == Top(t)
       IN /\ f.kind = "proof"
          /\ exc' = [exc EXCEPT ![t] = Raised(Append(exc[t].tool_traceback, FailedProof(f)))]
          /\ cs' = [cs EXCEPT ![t] = Front(@)]
          /\ live' = ReleasedLive(f.logic)
          /\ num_model' = ReleasedModel(f.logic)
    /\ UNCHANGED << q, nextId, workerVars, controlVars, wpc >>

\* the error leaves run_no_mem (no handler) and reaches the except clause of
\* the caller's run_steps, lines 54-60
PropagateRun(t) ==
    /\ Raising(t)
    /\ LET f == Top(t)
           c == cs[t][Len(cs[t]) - 1]
       IN /\ f.kind = "run"
          /\ cs' = [cs EXCEPT ![t] = Append(SubSeq(@, 1, Len(@) - 2), HandlerFrame(c))]
          /\ exc' = [exc EXCEPT ![t] = HandlerExc(c, exc[t].tool_traceback)]
    /\ UNCHANGED << num_model, live, q, nextId, workerVars, controlVars, wpc >>

\* line 60 in a run_steps called by the front end: the error reaches it
PropagateGui ==
    /\ Raising("fg")
    /\ Top("fg").kind = "gui"
    /\ cs' = [cs EXCEPT !["fg"] = << >>]
    /\ exc' = [exc EXCEPT !["fg"] = NoExc]
    /\ UNCHANGED << num_model, live, q, nextId, workerVars, controlVars, wpc >>

\* ---------------------------------------------------------------- front end
FgIdle == cs["fg"] = << >>

\* ToolStepEnv(logic).run_steps(steps, strictness, catch_errors)
RunScript(script, strictness, catch) ==
    /\ FgIdle /\ runs < MaxRuns
    /\ cs' = [cs EXCEPT !["fg"] =
                << EnterRunSteps(Frame("gui", script, AmbientLogic, << >>, strictness, << >>),
                                 "gui", strictness, catch) >>]
    /\ runs' = runs + 1
    /\ UNCHANGED << exc, num_model, live, q, nextId, workerVars, progress_hook, disabled, resets, wpc >>

GuiRun(strictness, catch) == RunScript("gui", strictness, catch)

\* the same call on the second script
DeepRun(strictness, catch) == RunScript("deep", strictness, catch)

\* run_steps returns to the front end
GuiReturn ==
    /\ CanRun("fg")
    /\ Top("fg").kind = "gui" /\ LoopDone(Top("fg"))
    /\ cs' = [cs EXCEPT !["fg"] = << >>]
    /\ UNCHANGED << exc, num_model, live, q, nextId, workerVars, controlVars, wpc >>

\* line 139
Disable ==
    /\ FgIdle
    /\ disabled' = TRUE
    /\ UNCHANGED << cs, exc, num_model, live, q, nextId, workerVars, progress_hook, runs, resets, wpc >>

\* line 140
Enable ==
    /\ FgIdle
    /\ disabled' = FALSE
    /\ UNCHANGED << cs, exc, num_model, live, q, nextId, workerVars, progress_hook, runs, resets, wpc >>

\* line 144: Thread.start() of a thread started before raises RuntimeError to
\* the caller of paralelize() and leaves the thread as it is
ThreadStart(w) == IF w = "unstarted" THEN "drain" ELSE w

\* lines 142-144; line 143 assigns progress_hook on every call, the first or not
Paralelize ==
    /\ FgIdle
    /\ \E hook \in ProgressHooks : progress_hook' = hook
    /\ wpc' = ThreadStart(wpc)
    /\ UNCHANGED << cs, exc, num_model, live, q, nextId, workerVars, disabled, runs, resets >>

\* lines 165-166
Reset ==
    /\ FgIdle /\ resets < MaxResets
    /\ q' = Append(q, ResetMsg(nextId, Len(startLog)))
    /\ resets' = resets + 1
    /\ UNCHANGED << cs, exc, num_model, live, nextId, workerVars, progress_hook, disabled, runs, wpc >>

\* ---------------------------------------------------------------- worker
RECURSIVE Weight(_)
Weight(obs) == IF obs = << >> THEN 0 ELSE deep_len_proof(Head(obs).tool) + Weight(Tail(obs))

\* the slice of line 183 starting one entry early
MutReportRemains(stk, tsk, ti) ==
    Weight(stk \o SubSeq(tsk, IF ti > 0 THEN ti ELSE 1, Len(tsk)))

\* line 183: remains, over self.stack + self.tasks[self.task_index:]
ReportRemains(stk, tsk, ti) == Weight(stk \o SubSeq(tsk, ti + 1, Len(tsk)))

\* size taken over the unprocessed entries only
MutReportSize(tsk, ti) == Weight(SubSeq(tsk, ti + 1, Len(tsk)))

\* line 184: size, over self.tasks
ReportSize(tsk, ti) == Weight(tsk)

\* lines 181-185, on the given values of stack, tasks and task_index
ProgressReport(stk, tsk, ti) ==
    << ReportSize(tsk, ti) - ReportRemains(stk, tsk, ti), ReportSize(tsk, ti) >>

\* line 182, the first read of progress_hook: update_progress returns when it
\* is None (the worker goes on at position ret), and goes on to lines 183-185
\* (position call) otherwise
UpdateProgress(ret, call) ==
    wpc' = IF progress_hook = NoHook THEN ret ELSE call

\* where the worker goes on after the update_progress call it is in
AfterHook(w) == IF w = "idleHook" THEN "blocked" ELSE "pop"

\* line 171 inserting at the front
MutBatched(tsk, ob) == << ob >> \o tsk

\* line 171: self.tasks.append((tool, args))
Batched(tsk, ob) == Append(tsk, ob)

\* a reset that leaves the stack as it is
MutCleared(stk) == stk

\* line 174: self.stack = []
Cleared(stk) == << >>

\* a reset that leaves the cursor where it is
MutRewound(ti) == ti

\* line 176: self.task_index = 0
Rewound(ti) == 0

\* lines 168-179
ReadQueue ==
    LET msg == Head(q)
    IN /\ q' = Tail(q)
       /\ IF msg.kind = "task"
          THEN /\ tasks' = Batched(tasks, msg)
               /\ UNCHANGED << stack, task_index, timeSet, checked_num, batchSeen >>
          ELSE /\ stack' = Cleared(stack)
               /\ batchSeen' = 0
               /\ tasks' = << >>
               /\ task_index' = Rewound(task_index)
               /\ timeSet' = TRUE
               /\ checked_num' = 0

\* lines 190-191
WDrain ==
    /\ wpc = "drain"
    /\ IF q # << >>
       THEN ReadQueue /\ UNCHANGED wpc
       ELSE wpc' = "idle" /\ UNCHANGED << q, stack, tasks, task_index, timeSet, checked_num,
                                          batchSeen >>
    /\ UNCHANGED << cs, exc, num_model, live, nextId, sleepiness, progress, startLog,
                    controlVars >>

\* lines 192-195: the idle loop's test and its body up to line 182 of the
\* update_progress call
WIdle ==
    /\ wpc = "idle"
    /\ IF stack = << >> /\ task_index >= Len(tasks)
       THEN /\ task_index' = 0
            /\ tasks' = << >>
            /\ batchSeen' = 0
            /\ UpdateProgress("blocked", "idleHook")
       ELSE /\ wpc' = "promote"
            /\ UNCHANGED << task_index, tasks, batchSeen >>
    /\ UNCHANGED << cs, exc, num_model, live, q, nextId, stack, checked_num, sleepiness,
                    timeSet, progress, startLog, controlVars >>

\* line 196: q.get(True) returns once a message is there
WBlocked ==
    /\ wpc = "blocked"
    /\ q # << >>
    /\ ReadQueue
    /\ wpc' = "idle"
    /\ progress' = << >>
    /\ UNCHANGED << cs, exc, num_model, live, nextId, sleepiness, startLog, controlVars >>

\* lines 197-199
WPromote ==
    /\ wpc = "promote"
    /\ IF stack = << >> /\ task_index < Len(tasks)
       THEN /\ stack' = Append(stack, tasks[task_index + 1])
            /\ task_index' = task_index + 1
       ELSE UNCHANGED << stack, task_index >>
    /\ wpc' = "sleep"
    /\ UNCHANGED << cs, exc, num_model, live, q, nextId, tasks, checked_num, sleepiness,
                    timeSet, progress, startLog, batchSeen, controlVars >>

\* line 201
SleepPeriod == 5

\* lines 201-205, up to line 182 of the update_progress call
WSleep ==
    /\ wpc = "sleep"
    /\ IF sleepiness = SleepPeriod
       THEN sleepiness' = 0 /\ UpdateProgress("pop", "sleepHook")
       ELSE sleepiness' = sleepiness + 1 /\ wpc' = "pop"
    /\ UNCHANGED << cs, exc, num_model, live, q, nextId, stack, tasks, task_index,
                    checked_num, timeSet, progress, startLog, batchSeen, controlVars >>

\* lines 183-185 of the update_progress call the worker is in: the sums over
\* the worker's own lists, then the second read of progress_hook and the call.
\* When paralelize() has set it to None since line 182, calling it raises
\* TypeError, which nothing catches: the thread ends
WCallHook ==
    /\ wpc \in {"idleHook", "sleepHook"}
    /\ IF progress_hook = NoHook
       THEN wpc' = "dead" /\ batchSeen' = 0 /\ UNCHANGED progress
       ELSE /\ progress' = ProgressReport(stack, tasks, task_index)
            /\ wpc' = AfterHook(wpc)
            /\ UNCHANGED batchSeen
    /\ UNCHANGED << cs, exc, num_model, live, q, nextId, stack, tasks, task_index,
                    checked_num, sleepiness, timeSet, startLog, controlVars >>

\* line 209 left out
MutCounted(n) == n

\* line 209: self.checked_num += 1
Counted(n) == n + 1

\* the stack popped as a queue, oldest entry first
MutPopIndex(stk) == 1

\* line 207: self.stack.pop() takes the last element
PopIndex(stk) == Len(stk)

\* the list without its i-th element
RemoveAt(stk, i) == SubSeq(stk, 1, i - 1) \o SubSeq(stk, i + 1, Len(stk))

\* lines 207-210: pop, count, and enter proof_check (lines 105-109); popping
\* an empty list raises IndexError, which ends the thread
WPop ==
    /\ wpc = "pop"
    /\ IF stack = << >>
       THEN /\ wpc' = "dead"
            /\ UNCHANGED << cs, num_model, live, stack, checked_num, startLog, batchSeen >>
       ELSE /\ FreeLogics # {}
            /\ LET ob == stack[PopIndex(stack)]
                   lg == SandboxLogic
               IN /\ stack' = RemoveAt(stack, PopIndex(stack))
                  /\ checked_num' = Counted(checked_num)
                  /\ cs' = [cs EXCEPT !["wk"] = << ProofFrame(ob.tool, ob.num_args, lg) >>]
                  /\ num_model' = AddObjs(ob.tool, ob.num_args, lg)
                  /\ live' = live \cup {lg}
                  /\ startLog' = Append(startLog, [id |-> ob.id, parent |-> ob.parent,
                                                   tool |-> ob.tool])
                  /\ batchSeen' = IF batchSeen = 0 THEN Len(tasks) ELSE batchSeen
            /\ wpc' = "verify"
    /\ progress' = << >>
    /\ UNCHANGED << exc, q, nextId, tasks, task_index, sleepiness, timeSet, controlVars >>

\* lines 211-212
WCatch ==
    /\ wpc = "verify"
    /\ cs["wk"] = << >> /\ exc["wk"].on
    /\ exc' = [exc EXCEPT !["wk"] = NoExc]
    /\ wpc' = "after"
    /\ UNCHANGED << cs, num_model, live, q, nextId, stack, tasks, task_index, checked_num,
                    sleepiness, timeSet, progress, startLog, batchSeen, controlVars >>

\* lines 213-217: the DONE line reads self.time, which only read_queue's
\* reset branch assigns; reading it unassigned raises AttributeError, which
\* ends the thread
WAfter ==
    /\ wpc = "after"
    /\ IF stack = << >> /\ task_index = Len(tasks) /\ ~timeSet
       THEN wpc' = "dead" /\ batchSeen' = 0
       ELSE wpc' = "drain" /\ UNCHANGED batchSeen
    /\ UNCHANGED << cs, exc, num_model, live, q, nextId, stack, tasks, task_index,
                    checked_num, sleepiness, timeSet, progress, startLog, controlVars >>

\* ---------------------------------------------------------------- system
Next ==
    \/ \E t \in Threads : StepSkip(t)
    \/ \E t \in Threads : StepBasicOk(t)
    \/ \E t \in Threads : StepBasicFail(t)
    \/ \E t \in Threads : StepCall(t)
    \/ \E t \in Threads : RunNoCheck(t)
    \/ \E t \in Threads : CheckDisabled(t)
    \/ \E t \in Threads : CheckSync(t)
    \/ \E t \in Threads : CheckEnqueue(t)
    \/ \E t \in Threads : CheckPush(t)
    \/ \E t \in Threads : RunReturn(t)
    \/ \E t \in Threads : ProofSnapshot(t)
    \/ \E t \in Threads : ProofRestore(t)
    \/ \E t \in Threads : ProofReturnSync(t)
    \/ ProofReturnWorker
    \/ \E t \in Threads : PropagateProof(t)
    \/ \E t \in Threads : PropagateRun(t)
    \/ PropagateGui
    \/ \E s \in {0, 1}, c \in BOOLEAN : GuiRun(s, c)
    \/ GuiReturn
    \/ Disable
    \/ Enable
    \/ Paralelize
    \/ Reset
    \/ WDrain
    \/ WIdle
    \/ WBlocked
    \/ WPromote
    \/ WSleep
    \/ WCallHook
    \/ WPop
    \/ WCatch
    \/ WAfter

Spec == Init /\ [][Next]_vars

\* the program driven by the second script, by a front end that never calls
\* disable() or enable()
NextDeep ==
    \/ \E t \in Threads : StepSkip(t)
    \/ \E t \in Threads : StepBasicOk(t)
    \/ \E t \in Threads : StepBasicFail(t)
    \/ \E t \in Threads : StepCall(t)
    \/ \E t \in Threads : RunNoCheck(t)
    \/ \E t \in Threads : CheckSync(t)
    \/ \E t \in Threads : CheckEnqueue(t)
    \/ \E t \in Threads : CheckPush(t)
    \/ \E t \in Threads : RunReturn(t)
    \/ \E t \in Threads : ProofSnapshot(t)
    \/ \E t \in Threads : ProofRestore(t)
    \/ \E t \in Threads : ProofReturnSync(t)
    \/ ProofReturnWorker
    \/ \E t \in Threads : PropagateProof(t)
    \/ \E t \in Threads : PropagateRun(t)
    \/ PropagateGui
    \/ \E s \in {0, 1}, c \in BOOLEAN : DeepRun(s, c)
    \/ GuiReturn
    \/ Paralelize
    \/ Reset
    \/ WDrain
    \/ WIdle
    \/ WBlocked
    \/ WPromote
    \/ WSleep
    \/ WCallHook
    \/ WPop
    \/ WCatch
    \/ WAfter

SpecDeep == Init /\ [][NextDeep]_vars

\* ---------------------------------------------------------------- sanity
TypeOK ==
    /\ live \subseteq LogicIds /\ AmbientLogic \in live
    /\ task_index \in 0..Len(tasks)
    /\ wpc \in {"unstarted", "drain", "idle", "idleHook", "blocked", "promote", "sleep",
                "sleepHook", "pop", "verify", "after", "dead"}
\* the model never runs out of LogicalCore instances
EnoughLogics == FreeLogics # {}

\* ---------------------------------------------------------------- claims
IsPrefix(a, b) == Len(a) <= Len(b) /\ SubSeq(b, 1, Len(a)) = a

RECURSIVE OutSum(_, _)
\* sum of len(step.tool.out_types) over the first n steps
OutSum(steps, n) == IF n = 0 THEN 0 ELSE OutSum(steps, n - 1) + out_types[steps[n].tool]

FrameIds == {<< t, d >> \in Threads \X (1..8) : d <= Len(cs[t])}
FrameAt(p) == cs[p[1]][p[2]]
InProof(stk) == \E d \in 1..Len(stk) : stk[d].kind = "proof"

\* C1: in every run_steps call, after k steps the table has grown by the sum
\* of the out_types lengths of those k steps, whether they ran, were skipped or
\* had their error swallowed; at normal return (k = all steps) by the total.
C1_TableGrowsByArity ==
    \A p \in FrameIds :
        LET f == FrameAt(p)
        IN InRunSteps(f) =>
              Len(f.local_to_global) = Len(f.pre) + OutSum(StepsOf(f), f.idx - 1)

\* C1 witness: an error-tolerant run_steps returned normally after its first
\* step failed and the three steps depending on it were skipped
C1_Witness ==
    /\ cs["fg"] # << >>
    /\ LET f == cs["fg"][1]
       IN /\ f.kind = "gui" /\ f.catch_errors /\ LoopDone(f)
          /\ f.local_to_global = << None, None, None, None >>

SameCall(f, g) ==
    /\ InRunSteps(f)
    /\ f.kind = g.kind /\ f.tool = g.tool /\ f.pc = g.pc

\* C2: within one run_steps call the table only grows (the table at entry and
\* every earlier table is a prefix of the current one); when a step's error is
\* re-raised the failing step appends nothing and the loop does not advance,
\* so the table is the entry table plus the outputs of the preceding steps.
C2_Additive ==
    [][\A t \in Threads : \A d \in 1..Len(cs[t]) :
          LET f == cs[t][d]
          IN (d <= Len(cs'[t]) /\ SameCall(f, cs'[t][d])) =>
                LET g == cs'[t][d]
                IN /\ g.pre = f.pre
                   /\ IsPrefix(f.pre, f.local_to_global)
                   /\ IsPrefix(f.local_to_global, g.local_to_global)
                   /\ (exc'[t].on /\ d = Len(cs'[t])) =>
                         /\ g.local_to_global = f.local_to_global
                         /\ g.idx = f.idx
                         /\ Len(g.local_to_global) = Len(g.pre) + OutSum(StepsOf(g), g.idx - 1)
      ]_vars

\* C2 witness: a run_steps call re-raises from its second step, after the
\* first one appended its outputs
C2_Witness ==
    /\ Raising("fg")
    /\ InRunSteps(Top("fg")) /\ Top("fg").idx = 2
    /\ Len(Top("fg").local_to_global) = Len(Top("fg").pre) + 2

\* C3 (as stated): every execution of run_no_mem, when it ends (returning or
\* raising), has submitted the tool to the checker once if strictness = 1 and
\* the tool has a proof, and never otherwise.
C3_Original ==
    \A t \in Threads :
        cs[t] # << >> =>
            LET f == Top(t)
            IN (f.kind = "run" /\ (exc[t].on \/ (f.pc = "implications" /\ LoopDone(f)))) =>
                  f.submitted = IF f.run_strictness = 1 /\ f.tool \in DOMAIN proof THEN 1 ELSE 0

\* C3 (amended): while the assumptions run nothing has been submitted, so an
\* execution that an assumption step aborts submits nothing; once the
\* assumptions are done, and before the first implication step, the tool has
\* been submitted once if strictness = 1 and it has a proof, never otherwise,
\* and this stays so until the execution ends.
C3_SubmitOnceAfterAssumptions ==
    \A p \in FrameIds :
        LET f == FrameAt(p)
        IN f.kind = "run" =>
              /\ f.pc = "assumptions" => f.submitted = 0
              /\ f.pc \in {"check", "implications"} =>
                    f.submitted = IF f.run_strictness = 1 /\ f.tool \in DOMAIN proof THEN 1 ELSE 0
              /\ f.pc = "check" => (p[2] < Len(cs[p[1]]) \/ exc[p[1]].on)

\* C3 witness: a run_no_mem of a tool with a proof, at strictness 1, is about
\* to return having submitted once
C3_Witness ==
    \E p \in FrameIds :
        LET f == FrameAt(p)
        IN /\ f.kind = "run" /\ f.tool = "Leaf" /\ f.run_strictness = 1
           /\ f.pc = "implications" /\ LoopDone(f) /\ f.submitted = 1

\* C4: when proof_check runs the implications, the table it starts them on is
\* the table snapshotted after the assumptions: arguments plus assumption
\* outputs, the same length run_no_mem starts its implications on.
C4_RestoredTable ==
    \A p \in FrameIds :
        LET f == FrameAt(p)
            n == arg_types[f.tool] + OutSum(assumptions[f.tool], Len(assumptions[f.tool]))
        IN (f.kind \in {"run", "proof"} /\ f.pc = "implications") =>
              /\ Len(f.pre) = n
              /\ f.kind = "proof" => f.pre = f.local_to_global_bak

\* C4 witness: a proof_check whose proof script appended bindings has run an
\* implication step that appended its outputs right after the assumptions'
C4_Witness ==
    \E p \in FrameIds :
        LET f == FrameAt(p)
        IN /\ f.kind = "proof" /\ f.tool = "Leaf" /\ f.pc = "implications" /\ f.idx = 2
           /\ Len(f.local_to_global) = 5

\* C5: every proof_check works on a model of its own, which is not the
\* ambient one and which the tools it runs, directly or nested, work on too;
\* no step a thread takes inside (or entering, or leaving) a proof_check
\* changes the ambient model.
C5_AmbientUntouched ==
    [][\A t \in Threads :
          /\ \A d \in 1..Len(cs[t]) :
                /\ InProof(SubSeq(cs[t], 1, d)) => cs[t][d].logic # AmbientLogic
                /\ (d > 1 /\ cs[t][d].kind = "run") => cs[t][d].logic = cs[t][d - 1].logic
                /\ cs[t][d].kind = "proof" =>
                      \A p \in FrameIds :
                          (FrameAt(p).logic = cs[t][d].logic /\ p # << t, d >>) =>
                              (p[1] = t /\ p[2] > d /\ FrameAt(p).kind = "run")
          /\ ((InProof(cs[t]) \/ InProof(cs'[t])) /\ cs'[t] # cs[t]) =>
                num_model'[AmbientLogic] = num_model[AmbientLogic]
      ]_vars

\* C5 witness: with objects in the ambient model, the worker is inside a
\* composite tool of a proof script, which has added objects to the sandbox
C5_Witness ==
    /\ num_model[AmbientLogic] # << >>
    /\ Len(cs["wk"]) = 2
    /\ Top("wk").kind = "run" /\ Top("wk").idx = 2
    /\ Len(num_model[Top("wk").logic]) > 3

\* C6: inside a proof_check no run_steps swallows errors, and a proof_check in
\* which an error is raised takes one step only: it ends with that error, whose
\* trace has gained "Failed proof: <tool> <num_args[:len(arg_types)]>".
C6_FailedProofWrapped ==
    [][\A t \in Threads :
          /\ \A d \in 1..Len(cs[t]) :
                InProof(SubSeq(cs[t], 1, d)) => ~cs[t][d].catch_errors
          /\ (Raising(t) /\ Top(t).kind = "proof" /\ (cs'[t] # cs[t] \/ exc'[t] # exc[t])) =>
                /\ cs'[t] = Front(cs[t])
                /\ exc'[t].on
                /\ exc'[t].tool_traceback =
                      Append(exc[t].tool_traceback,
                             [kind |-> "failed", msg |-> "", tool |-> Top(t).tool,
                              args |-> SubSeq(Top(t).num_args, 1, arg_types[Top(t).tool])])
      ]_vars

\* C6 witness: a failed proof_check of the worker has handed process an error
\* whose trace ends with the proof's entry, after a step's debug label
C6_Witness ==
    /\ cs["wk"] = << >> /\ exc["wk"].on
    /\ Len(exc["wk"].tool_traceback) >= 2
    /\ Last(exc["wk"].tool_traceback).kind = "failed"

\* C7: proof_check runs on the submitting thread only if the worker was never
\* started.
C7_SyncOnlyBeforeStart ==
    InProof(cs["fg"]) => wpc = "unstarted"

StartsProofCheck(t) ==
    /\ Len(cs'[t]) = Len(cs[t]) + 1
    /\ Last(cs'[t]).kind = "proof"

\* C8 (as stated): no thread starts a proof_check while the disabled flag is
\* set.
C8_Original ==
    [][\A t \in Threads : StartsProofCheck(t) => ~disabled]_vars

\* C8 (amended): a submit made while the flag is set leaves the queue, the
\* batch, the stack and the models as they are and starts no proof_check; a
\* proof_check started while the flag is set is one the worker pops from its
\* stack.
C8_DisabledSubmitDiscarded ==
    [][\A t \in Threads :
          /\ (disabled /\ cs[t] # << >> /\ ~exc[t].on /\ cs'[t] # cs[t]
                /\ Top(t).kind = "run" /\ Top(t).pc = "assumptions" /\ LoopDone(Top(t))
                /\ Top(t).run_strictness = 1 /\ Top(t).tool \in DOMAIN proof) =>
                /\ q' = q /\ stack' = stack /\ tasks' = tasks
                /\ num_model' = num_model /\ startLog' = startLog
                /\ Len(cs'[t]) = Len(cs[t])
                /\ Top(t).submitted = 0 /\ Last(cs'[t]).submitted = 1
          /\ (disabled /\ StartsProofCheck(t)) => (t = "wk" /\ wpc = "pop" /\ stack # << >>)
      ]_vars

\* C8 witness: with a live worker and the flag set, a run_no_mem at strictness
\* 1 of a tool with a proof has gone past its submit with nothing queued
C8_Witness ==
    /\ disabled /\ IsAlive /\ cs["fg"] # << >>
    /\ Top("fg").kind = "run" /\ Top("fg").submitted = 1 /\ Top("fg").pc = "implications"
    /\ q = << >> /\ tasks = << >> /\ stack = << >> /\ startLog = << >>

\* C9: a submit to the live worker returns at once without an error; no step
\* of the worker touches the foreground's frames or raises in it; checked_num
\* goes up by one when an obligation is popped and stays through its
\* verification; a failure that reaches process is printed, leaves stack and
\* batch as they are, and the worker goes on unless nothing is left.
C9_WorkerSwallowsFailure ==
    [][/\ (cs'["wk"] # cs["wk"] \/ wpc' # wpc) =>
             (cs'["fg"] = cs["fg"] /\ exc'["fg"] = exc["fg"])
       /\ (q' # q /\ Len(q') > Len(q) /\ Last(q').kind = "task") =>
             (~exc'["fg"].on /\ Len(cs'["fg"]) = Len(cs["fg"])
                /\ Top("fg").pc = "assumptions" /\ Last(cs'["fg"]).pc = "implications")
       /\ (wpc = "pop" /\ wpc' = "verify") => checked_num' = checked_num + 1
       /\ wpc = "verify" => checked_num' = checked_num
       /\ (wpc = "verify" /\ cs["wk"] = << >> /\ exc["wk"].on /\ wpc' # wpc) =>
             /\ wpc' = "after" /\ ~exc'["wk"].on /\ cs'["wk"] = << >>
             /\ stack' = stack /\ tasks' = tasks /\ task_index' = task_index
       /\ (wpc = "after" /\ (stack # << >> \/ task_index < Len(tasks))) =>
             wpc' \in {"after", "drain"}
      ]_vars

\* C9 witness: with no reset, the failure of an obligation that came through
\* the queue has reached process while a nested obligation it pushed waits on
\* the stack, and the foreground has no error
C9_Witness ==
    /\ resets = 0 /\ wpc = "verify" /\ cs["wk"] = << >> /\ exc["wk"].on
    /\ Last(startLog).parent = 0 /\ stack # << >> /\ ~exc["fg"].on

TopStarted == SelectSeq(startLog, LAMBDA e : e.parent = 0)
Pending == q \o SubSeq(tasks, task_index + 1, Len(tasks)) \o stack

\* C10: the obligations that came through the queue start verification in the
\* order they were enqueued; with no reset, none that is still waiting was
\* enqueued before one that has started.
C10_QueueOrder ==
    /\ \A i, j \in 1..Len(TopStarted) : i < j => TopStarted[i].id < TopStarted[j].id
    /\ resets = 0 =>
          \A i \in 1..Len(TopStarted) : \A k \in 1..Len(Pending) :
              (Pending[k].kind = "task" /\ Pending[k].parent = 0) =>
                  TopStarted[i].id < Pending[k].id

\* C10 witness: with no reset, two obligations drained into one batch have
\* both started
C10_Witness ==
    /\ resets = 0 /\ Len(TopStarted) >= 2 /\ Len(tasks) >= 2

\* ---------------------------------------------------------------- C11
LogPos(id) == CHOOSE k \in 1..Len(startLog) : startLog[k].id = id
Started(id) == \E k \in 1..Len(startLog) : startLog[k].id = id

RECURSIVE DescendsFrom(_, _)
\* the obligation with started parent p was spawned, directly or
\* transitively, while the obligation a was being verified
DescendsFrom(p, a) ==
    IF p = a THEN TRUE
    ELSE IF p = 0 \/ ~Started(p) THEN FALSE
    ELSE DescendsFrom(startLog[LogPos(p)].parent, a)

\* the batch entry most recently promoted and started
CurrentEntry == Last(TopStarted).id

\* every obligation ever created is waiting or has been started
NothingLost ==
    \A i \in 1..(nextId - 1) :
        \/ Started(i)
        \/ \E k \in 1..Len(Pending) : Pending[k].kind = "task" /\ Pending[k].id = i

\* with no reset: no obligation is lost, every nested obligation still
\* waiting was spawned under the batch entry started last, and between the
\* start of an obligation and the start of one it spawned only obligations
\* spawned under it are started
DepthFirstOrder ==
    resets = 0 =>
        /\ NothingLost
        /\ \A k \in 1..Len(stack) :
              stack[k].parent # 0 =>
                  (TopStarted # << >> /\ DescendsFrom(stack[k].parent, CurrentEntry))
        /\ \A c \in 1..Len(startLog) :
              startLog[c].parent # 0 =>
                  /\ Started(startLog[c].parent)
                  /\ LogPos(startLog[c].parent) < c
                  /\ \A b \in (LogPos(startLog[c].parent) + 1)..(c - 1) :
                        DescendsFrom(startLog[b].parent, startLog[c].parent)

\* C11: depth-first resolution on the worker. A batch entry is promoted only
\* onto an empty stack and the stack is popped last-in-first-out. With no
\* reset, no obligation is lost, every nested obligation still waiting was
\* spawned under the batch entry started last (so all that an earlier entry
\* spawned were verified before the next entry began), and between the start
\* of an obligation X and the start of any obligation X spawned, only
\* obligations spawned under X are started (so what X spawned is verified
\* before any sibling of X still on the stack).
C11_DepthFirst ==
    [][/\ (wpc = "promote" /\ stack' # stack) =>
              (stack = << >> /\ stack' = << tasks[task_index + 1] >>)
       /\ (wpc = "pop" /\ wpc' = "verify") =>
              (stack' = Front(stack) /\ Last(startLog').id = Last(stack).id)
       /\ DepthFirstOrder'
      ]_vars

\* C11 witness: with no reset, a batch entry, an obligation X it spawned, the
\* two obligations X spawned (last pushed first), the sibling of X that waited
\* on the stack, and then the next batch entry have started, in this order
C11_Witness ==
    /\ resets = 0 /\ Len(startLog) = 6
    /\ startLog[1].parent = 0
    /\ startLog[2].parent = startLog[1].id
    /\ startLog[3].parent = startLog[2].id
    /\ startLog[4].parent = startLog[2].id /\ startLog[4].id < startLog[3].id
    /\ startLog[5].parent = startLog[1].id /\ startLog[5].id < startLog[2].id
    /\ startLog[6].parent = 0

\* ---------------------------------------------------------------- C12
\* the worker starts a proof_check in this step
WorkerStarts == wpc = "pop" /\ wpc' = "verify"
\* the worker takes a reset message off the queue in this step
ReadsReset == q # << >> /\ Head(q).kind = "reset" /\ q' = Tail(q)
UnreadResets == {k \in 1..Len(q) : q[k].kind = "reset"}
IsPendingIn(i, pend) == \E k \in 1..Len(pend) : pend[k].kind = "task" /\ pend[k].id = i
IsPending(i) == IsPendingIn(i, Pending)

\* C12 as stated: no obligation that existed when reset() was called has its
\* proof_check started after the call; the reset zeroes checked_num and the
\* worker keeps running.
C12_Original ==
    [][/\ WorkerStarts =>
              \A k \in UnreadResets : Last(startLog').id >= q[k].mark
       /\ ReadsReset => (checked_num' = 0 /\ wpc' \in {"drain", "idle"})
      ]_vars

\* C12 amended: the pending work is discarded when the worker reads the reset
\* message, which it does only between verifications. Between the call and
\* the read the worker starts at most one obligation that was pending at the
\* call. When the message is read, stack and batch are emptied, the cursor and
\* checked_num are zeroed, no obligation created before the call is left
\* pending, and the worker keeps running.
C12_ResetDiscardsWhenRead ==
    [][/\ WorkerStarts =>
              \A k \in UnreadResets :
                  Last(startLog').id < q[k].mark => Len(startLog) = q[k].started
       /\ ReadsReset =>
              /\ cs["wk"] = << >> /\ cs'["wk"] = << >>
              /\ Len(startLog) <= Head(q).started + 1
              /\ stack' = << >> /\ tasks' = << >> /\ task_index' = 0
              /\ checked_num' = 0
              /\ \A i \in 1..(Head(q).mark - 1) : ~IsPendingIn(i, Pending')
              /\ wpc' \in {"drain", "idle"}
      ]_vars

\* C12 witness: a reset has been read, the worker runs on, and an obligation
\* created before the call was neither started nor is pending any more
C12_Witness ==
    /\ resets = 1 /\ UnreadResets = {} /\ timeSet /\ IsAlive
    /\ stack = << >> /\ tasks = << >> /\ checked_num = 0
    /\ \E i \in 1..(nextId - 1) : ~Started(i) /\ ~IsPending(i)

\* ---------------------------------------------------------------- C13
\* C13: once started the worker never terminates, and it blocks only when
\* both the stack and the unprocessed part of the batch are empty (so that
\* every enqueued obligation not discarded by a reset gets verified), also
\* when no reset() was called before the first batch completes.
C13_WorkerNeverTerminates ==
    /\ wpc # "dead"
    /\ wpc = "blocked" => (stack = << >> /\ task_index >= Len(tasks))

\* ---------------------------------------------------------------- C14
\* the worker calls progress_hook (line 185) from the main loop (line 203) in
\* this step
MidBatchReport == wpc = "sleepHook" /\ wpc' = "pop"
\* the worker calls progress_hook from the idle loop (line 195) in this step
IdleReport == wpc = "idleHook" /\ wpc' = "blocked"
\* the tasks drained before the first verification of the busy period
StartTasks == IF batchSeen = 0 THEN tasks ELSE SubSeq(tasks, 1, batchSeen)

\* C14 as stated: every progress report of a busy period carries the same
\* total, the sum of deep_len_proof over the tasks drained at the start of the
\* period, whatever is submitted while the batch is processed.
C14_Original ==
    [][MidBatchReport => progress'[2] = Weight(StartTasks)]_vars

\* C14 amended: a progress report carries the sum of deep_len_proof over the
\* batch list as it is at the time of the report. Within a busy period the
\* list is only extended (by the submissions drained at the top of each loop
\* iteration), so the total is at least the sum over the tasks drained at the
\* start of the period and grows with later submissions; the idle loop
\* reports (0, 0).
C14_TotalFollowsBatch ==
    [][/\ MidBatchReport =>
              /\ progress'[2] = Weight(tasks)
              /\ progress'[2] >= Weight(StartTasks)
       /\ IdleReport => progress' = << 0, 0 >>
       /\ (batchSeen # 0 /\ batchSeen' # 0) => IsPrefix(tasks, tasks')
      ]_vars

\* C14 witness: a report made from the main loop carried a total larger than
\* the sum over the tasks drained at the start of the busy period
C14_Witness ==
    /\ wpc = "pop" /\ sleepiness = 0 /\ batchSeen # 0 /\ progress # << >>
    /\ progress[2] = Weight(tasks) /\ progress[2] > Weight(StartTasks)

\* ---------------------------------------------------------------- C15
\* the composite tools among the tools of the given steps, with repetition
NestedTools(steps) ==
    LET at == {k \in 1..Len(steps) : steps[k].tool \in CompositeTools}
    IN [k \in at |-> steps[k].tool]
RECURSIVE SumOf(_, _)
\* the sum of f[k] over k in S
SumOf(f, S) ==
    IF S = {} THEN 0
    ELSE LET k == CHOOSE x \in S : TRUE IN f[k] + SumOf(f, S \ {k})
NestedAll(steps) ==
    LET nt == NestedTools(steps)
    IN SumOf([k \in DOMAIN nt |-> deep_len_all(nt[k])], DOMAIN nt)
UsesNoComposite(T) ==
    /\ DOMAIN NestedTools(assumptions[T] \o implications[T]) = {}
    /\ HasProof(T) => DOMAIN NestedTools(proof[T]) = {}
\* what the second part of the claim says of deep_len_proof
ProofWeightAsStated(T) ==
    deep_len_proof(T) =
        IF ~HasProof(T) THEN 0 ELSE 1 + NestedAll(implications[T] \o proof[T])

\* the composite tools the run has reached: those being run or verified and
\* those of the obligations waiting or started
ToolsReached ==
    {FrameAt(p).tool : p \in FrameIds} \cup {Pending[k].tool : k \in 1..Len(Pending)}
        \cup {tasks[k].tool : k \in 1..Len(tasks)}
        \cup {startLog[k].tool : k \in 1..Len(startLog)}
CompositesReached == ToolsReached \cap CompositeTools

\* C15 as stated: deep_len_all is 0 for a composite tool none of whose
\* assumptions, proof or implications steps uses a composite tool;
\* deep_len_proof is 0 without a proof and otherwise 1 plus the sum of
\* deep_len_all over the composite tools of its implications and proof steps.
C15_Original ==
    \A T \in CompositesReached :
        /\ UsesNoComposite(T) => deep_len_all(T) = 0
        /\ ProofWeightAsStated(T)

\* C15 amended: for a composite tool none of whose steps uses a composite
\* tool, deep_len_all equals deep_len_proof: 0 when no proof is declared and 1
\* when one is; deep_len_proof is as stated.
C15_StaticWeights ==
    \A T \in CompositesReached :
        /\ UsesNoComposite(T) =>
              (deep_len_all(T) = deep_len_proof(T)
                 /\ deep_len_all(T) = (IF HasProof(T) THEN 1 ELSE 0))
        /\ ProofWeightAsStated(T)

\* C15 witness: while the worker verifies Deep, the run has reached a tool
\* without proof, a tool with a proof and no composite step, and tools whose
\* proof and implications use composite tools
C15_Witness ==
    /\ {"Plain", "Lem", "Inner", "Deep"} \subseteq CompositesReached
    /\ wpc = "verify" /\ Last(startLog).tool = "Deep"
    /\ ~HasProof("Plain") /\ deep_len_proof("Plain") = 0
    /\ UsesNoComposite("Lem") /\ deep_len_all("Lem") = 1
    /\ ~UsesNoComposite("Inner") /\ deep_len_proof("Inner") = 3
    /\ ~UsesNoComposite("Deep") /\ deep_len_proof("Deep") = 5

\* ---------------------------------------------------------------- C16
\* the proof_check on top of thread t verifies an obligation that was
\* spawned inside another proof_check
SpawnedInProof(t) ==
    IF t = "wk" THEN Last(startLog).parent # 0 ELSE InProof(Front(cs[t]))
\* thread t leaves the proof_check on top of its stack with an error
ProofFails(t) == Raising(t) /\ Top(t).kind = "proof" /\ cs'[t] = Front(cs[t])
FailedEntries(tb) == SelectSeq(tb, LAMBDA e : e.kind = "failed")

\* C16 as stated: on either thread, when the proof_check of an obligation
\* spawned inside another proof_check fails, the error goes on to the
\* enclosing proof_check, which is still running.
C16_Original ==
    [][\A t \in Threads :
          (ProofFails(t) /\ SpawnedInProof(t)) => (exc'[t].on /\ InProof(cs'[t]))
      ]_vars

\* C16 amended: a nested obligation's failure is re-raised to its direct
\* caller when it is verified synchronously, which happens only when check()
\* finds the worker thread not alive: the error then leaves every frame inside
\* the enclosing proof_check, which fails with its own "Failed proof" entry.
\* On the worker thread a nested obligation is pushed on the stack and the
\* enclosing proof_check goes on without it; its proof_check starts after the
\* enclosing one has ended, and its failure is caught by the worker loop.
C16_NestedFailure ==
    [][/\ \A t \in Threads :
             (Raising(t) /\ InProof(cs[t]) /\ (cs'[t] # cs[t] \/ exc'[t] # exc[t])) =>
                 /\ Len(cs'[t]) = Len(cs[t]) - 1
                 /\ exc'[t].on
                 /\ IsPrefix(exc[t].tool_traceback, exc'[t].tool_traceback)
                 /\ Top(t).kind = "proof" =>
                        (/\ Last(exc'[t].tool_traceback).kind = "failed"
                         /\ Last(exc'[t].tool_traceback).tool = Top(t).tool)
       /\ \A t \in Threads :
             (cs[t] # << >> /\ Len(cs'[t]) > Len(cs[t]) /\ Top(t).kind = "run"
                 /\ Last(cs'[t]).kind = "proof") =>
                 (~IsAlive /\ t = "fg")
       /\ (AtCheck("wk") /\ MustCheck(Top("wk")) /\ ~disabled /\ cs'["wk"] # cs["wk"]) =>
             /\ Len(stack') = Len(stack) + 1
             /\ Last(stack').tool = Top("wk").tool
             /\ Last(stack').parent = Last(startLog).id
             /\ Len(cs'["wk"]) = Len(cs["wk"]) /\ ~exc'["wk"].on
             /\ q' = q
       /\ WorkerStarts => (cs["wk"] = << >> /\ Len(cs'["wk"]) = 1)
       /\ (ProofFails("wk") /\ SpawnedInProof("wk")) => cs'["wk"] = << >>
       /\ (wpc = "verify" /\ cs["wk"] = << >> /\ exc["wk"].on /\ wpc' # wpc) =>
             (wpc' = "after" /\ ~exc'["wk"].on)
      ]_vars

\* C16 witness: the failure of a nested obligation has reached the worker
\* loop; its trace holds the entry of that proof only, and the proof_check
\* that spawned it had ended before it started
C16_Witness ==
    /\ wpc = "verify" /\ cs["wk"] = << >> /\ exc["wk"].on
    /\ Last(startLog).parent # 0 /\ Started(Last(startLog).parent)
    /\ Len(FailedEntries(exc["wk"].tool_traceback)) = 1
    /\ Last(exc["wk"].tool_traceback).tool = Last(startLog).tool

\* ---------------------------------------------------------------- C17
SchedulerState == << stack, tasks, task_index, checked_num >>
\* the step changes nothing a foreground call changes but the queue
NoForegroundStep ==
    /\ cs'["fg"] = cs["fg"] /\ exc'["fg"] = exc["fg"]
    /\ disabled' = disabled /\ runs' = runs /\ resets' = resets

\* C17: the stack, the batch list, the batch cursor and checked_num change
\* only in steps of the live worker thread, never in a step of a foreground
\* call. A foreground step touches the queue only by appending a message; the
\* batch list grows only by the message the worker takes off the queue, and
\* stack and batch are emptied together only when that message is a reset.
C17_WorkerOwnsSchedulerState ==
    [][/\ SchedulerState' # SchedulerState =>
              (NoForegroundStep /\ IsAlive /\ wpc \in {"drain", "idle", "blocked", "promote",
                                                        "pop", "verify"})
       /\ ~NoForegroundStep =>
              (q' = q \/ (Len(q') = Len(q) + 1 /\ IsPrefix(q, q')))
       /\ tasks' # tasks =>
              \/ (q # << >> /\ q' = Tail(q) /\ Head(q).kind = "task"
                     /\ tasks' = Append(tasks, Head(q)))
              \/ (q # << >> /\ q' = Tail(q) /\ Head(q).kind = "reset" /\ tasks' = << >>)
              \/ (wpc = "idle" /\ stack = << >> /\ tasks' = << >>)
      ]_vars

\* C17 witness: while a foreground call is running, the worker is verifying
\* an obligation that came through the queue, with the batch list, the cursor
\* and checked_num advanced and a nested obligation on the stack
C17_Witness ==
    /\ cs["fg"] # << >> /\ wpc = "verify" /\ cs["wk"] # << >>
    /\ Len(tasks) = 2 /\ task_index = 2 /\ checked_num = 2 /\ stack # << >>

\* ---------------------------------------------------------------- C18
\* the worker's proof_check returns normally in this step
VerifiedOk == wpc = "verify" /\ cs["wk"] # << >> /\ wpc' = "after"
\* the obligations with the given parent among obs
ChildrenIn(obs, id) == SelectSeq(obs, LAMBDA o : o.parent = id)
\* the weight of what was pushed during the verification of the obligation id
PushedWeight(id) == Weight(ChildrenIn(startLog, id)) + Weight(ChildrenIn(stack, id))
TaskIds == {tasks[k].id : k \in 1..Len(tasks)}
\* the verifications started for the current batch: those of its entries and
\* of what was spawned under them
BatchStarted ==
    {k \in 1..Len(startLog) : \E a \in TaskIds : DescendsFrom(startLog[k].id, a)}
\* each of them pushed obligations weighing deep_len_proof - 1
AllPushedInFull ==
    \A k \in BatchStarted :
        PushedWeight(startLog[k].id) = deep_len_proof(startLog[k].tool) - 1

\* when every verification of the batch pushed its full weight, the number of
\* verifications plus the remaining weight is the total weight of the batch
BatchAccounting ==
    AllPushedInFull =>
        Cardinality(BatchStarted) + ReportRemains(stack, tasks, task_index)
            = ReportSize(tasks, task_index)

\* the step changes something BatchAccounting reads (it holds initially, of
\* the empty batch)
BatchChanges ==
    << stack, tasks, task_index, startLog >>' # << stack, tasks, task_index, startLog >>

\* C18 as stated: when the worker's proof_check of T returns with every step
\* succeeded, the obligations it pushed weigh deep_len_proof(T) - 1, so that
\* the remaining weight went down by 1; consequently the verifications of a
\* batch that ran so number the total weight of its entries when it is
\* exhausted.
C18_Original ==
    [][/\ VerifiedOk =>
              PushedWeight(Verifying) = deep_len_proof(Last(startLog).tool) - 1
       /\ BatchChanges => BatchAccounting'
      ]_vars

\* C18 amended: the same, provided no submit made during the proof_check of T
\* was discarded because the checker was disabled; in every case the
\* obligations pushed weigh at most deep_len_proof(T) - 1.
C18_WeightAccounting ==
    [][/\ VerifiedOk =>
              /\ PushedWeight(Verifying) <= deep_len_proof(Last(startLog).tool) - 1
              /\ cs["wk"][1].discarded = 0 =>
                    PushedWeight(Verifying) = deep_len_proof(Last(startLog).tool) - 1
       /\ BatchChanges => BatchAccounting'
      ]_vars

\* C18 witness: a batch of two entries, one of which spawned a nested
\* obligation, is exhausted after as many verifications as its total weight
C18_Witness ==
    /\ wpc = "after" /\ stack = << >> /\ task_index = Len(tasks) /\ Len(tasks) = 2
    /\ AllPushedInFull
    /\ \E k \in BatchStarted : startLog[k].parent # 0
    /\ Cardinality(BatchStarted) = Weight(tasks) /\ Weight(tasks) = 3

\* ---------------------------------------------------------------- C19
InRange(r) == 0 <= r[1] /\ r[1] <= r[2] /\ (r[2] > 0 => r[1] < r[2])

\* C19: every (completed, total) handed to the progress callback has
\* 0 <= completed <= total, and completed < total whenever total > 0: the
\* report of the idle loop is (0, 0), and wherever the main loop stands at
\* line 201 the report it would make has a positive total and is in range.
C19_ProgressInRange ==
    /\ progress # << >> => InRange(progress)
    /\ (wpc = "blocked" /\ progress # << >>) => progress = << 0, 0 >>
    /\ wpc \in {"sleep", "sleepHook"} =>
          /\ InRange(ProgressReport(stack, tasks, task_index))
          /\ ProgressReport(stack, tasks, task_index)[2] > 0

\* C19 witness: the main loop has reported a batch partly done, to which an
\* entry was added while it was being processed
C19_Witness ==
    /\ wpc = "pop" /\ sleepiness = 0 /\ progress # << >>
    /\ progress[1] > 0 /\ progress[1] < progress[2]
    /\ progress = ProgressReport(stack, tasks, task_index)
    /\ batchSeen # 0 /\ batchSeen < Len(tasks)

\* ---------------------------------------------------------------- C20
\* C20: in every state 0 <= task_index <= len(tasks); the worker promotes
\* tasks[task_index] only when that entry exists, and the stack is non-empty
\* from the promotion test on to stack.pop(), whatever resets and submits
\* were read before: the worker never pops an empty stack and never indexes
\* tasks out of range.
C20_CursorAndStackSafe ==
    /\ 0 <= task_index /\ task_index <= Len(tasks)
    /\ wpc = "promote" => (stack # << >> \/ task_index < Len(tasks))
    /\ wpc \in {"sleep", "sleepHook", "pop"} => stack # << >>

\* C20 witness: after a verification, a reset and a submit were drained in
\* one pass, and the worker stands at stack.pop() with the entry promoted from
\* the new batch
C20_Witness ==
    /\ wpc = "pop" /\ timeSet /\ resets = 1 /\ UnreadResets = {}
    /\ Len(stack) = 1 /\ task_index = 1 /\ stack[1] = tasks[1]

====
